---- MODULE Spec2Model ----
(***************************************************************************)
(* The ontology explorer front end: the App component (ontology load,      *)
(* filter state, filteredOntology), the FilterPanel handlers and the       *)
(* LineageView component (getTableRelationships, generateLineageLayout).   *)
(*                                                                         *)
(* Spec          : App + FilterPanel (load, filter handlers).              *)
(* LineageSpec   : LineageView mounted on a loaded App; the recursion of   *)
(*                 getTableRelationships runs one call-stack step at a     *)
(*                 time.                                                   *)
(* TraversalSpec : LineageSpec without the filter and detail panels.       *)
(* BuildSpec     : one run of the ontology builder on raw catalog records. *)
(* SearchSpec    : GraphView, Sidebar and the search box of the TopBar.    *)
(* ReadSpec      : every read-only handler of a loaded App, ListView's     *)
(*                 sortable headers included.                              *)
(***************************************************************************)
EXTENDS Integers, Sequences, FiniteSets, TLC

VARIABLES
    ontology,       \* App: useState<Ontology | null>
    loading,        \* App: useState(true)
    error,          \* App: useState<string | null>
    filters,        \* App: useState<FilterState>
    filteredOntology,   \* App: useMemo(..., [ontology, filters])
    selectedNode,   \* App: useState<SelectedNode | null>
    depth,          \* LineageView: useState(1)
    direction,      \* LineageView: useState('both')
    nodes,          \* LineageView: useNodesState([])
    edges,          \* LineageView: useEdgesState([])
    pc,             \* LineageView: where the layout effect stands
    stack,          \* LineageView: call stack of getTableRelationships
    related,        \* LineageView: generateLineageLayout's local `related`
    rawMetadata,    \* Builder: the records given to build
    built,          \* Builder: what build returned
    viewMode,       \* App: useState<ViewMode>('graph')
    searchQuery,    \* App: useState('')
    debouncedSearchQuery,   \* App: useDebounce(searchQuery, 300)
    sortField,      \* ListView: useState<SortField>('name')
    sortDirection,  \* ListView: useState<SortDirection>('asc')
    tableRows,      \* ListView: useMemo(..., [ontology, sortField, sortDirection])
    expandedDatabases,  \* GraphView: useState<Set<string>>(new Set())
    focusedTable,   \* GraphView: useState<string | null>(null)
    showAllNodes,   \* GraphView: useState(false)
    graphNodes,     \* GraphView: useNodesState([])
    graphEdges,     \* GraphView: useEdgesState([])
    crashed         \* an effect threw: React unmounted the tree

vars == <<ontology, loading, error, filters, filteredOntology, selectedNode,
          depth, direction, nodes, edges, pc, stack, related,
          rawMetadata, built, viewMode, searchQuery, debouncedSearchQuery,
          sortField, sortDirection, tableRows, expandedDatabases, focusedTable,
          showAllNodes, graphNodes, graphEdges, crashed>>

appVars == <<ontology, loading, error, filters, filteredOntology>>
lineageVars == <<depth, direction, nodes, edges, pc, stack, related>>
buildVars == <<rawMetadata, built>>
uiVars == <<viewMode, searchQuery, debouncedSearchQuery, sortField, sortDirection>>
graphState == <<expandedDatabases, focusedTable, showAllNodes>>
renderedVars == <<tableRows, graphNodes, graphEdges, crashed>>

(***************************************************************************)
(* Bounds of the model.                                                    *)
(***************************************************************************)
MaxFKs == 2             \* foreign keys of a catalog the lineage view is given
MaxFetchedFKs == 1      \* foreign keys of a catalog fetched in Spec
MaxCount == 2           \* largest value typed into a range input
MaxActiveFilters == 2   \* activeFilterCount never exceeds this

(***************************************************************************)
(* JavaScript values.                                                      *)
(***************************************************************************)
Null == -1                      \* null of a `number | null`
NullOntology == [null |-> TRUE] \* null of `Ontology | null`
NoSelection == [null |-> TRUE]  \* null of `SelectedNode | null`

\* (v || 0) on a `number | null`
OrZero(v) == IF v = Null \/ v = 0 THEN 0 ELSE v

RECURSIVE FlattenSeq(_)
FlattenSeq(ss) == IF ss = <<>> THEN <<>> ELSE Head(ss) \o FlattenSeq(Tail(ss))

SeqsUpTo(S, n) == UNION {[1..k -> S] : k \in 0..n}

ReverseSeq(q) == [i \in DOMAIN q |-> q[Len(q) + 1 - i]]

(***************************************************************************)
(* The catalogs the extraction can deliver.  Three configured databases:   *)
(* DB1 with tables a and b, DB2 with a table a (same table name, other     *)
(* database) and DB3 with no table.  A foreign key references one of these *)
(* tables or a table of EXT, a database that is not configured.            *)
(***************************************************************************)
TableIds == << <<"DB1", "a">>, <<"DB1", "b">>, <<"DB2", "a">> >>
TableIdSet == {TableIds[i] : i \in DOMAIN TableIds}
DatabaseNames == <<"DB1", "DB2", "DB3">>
FKTargets == TableIdSet \cup {<<"EXT", "a">>}

\* the constraint names of a catalog's foreign-key rows, by row position
ConstraintNames == <<"fk_1", "fk_2", "fk_3", "fk_4">>

\* a reference names a table and, where the third component is given, its
\* column; "id" is a column of every table
ReferencedColumn(target) == IF Len(target) = 3 THEN target[3] ELSE "id"

ForeignKey(name, target) ==
    [constraint_name |-> name,
     column_name |-> "id",
     referenced_table_schema |-> target[1],
     referenced_table_name |-> target[2],
     referenced_column_name |-> ReferencedColumn(target)]

TableIndex(id) == CHOOSE i \in DOMAIN TableIds : TableIds[i] = id

\* A catalog's foreign keys: (owning table, referenced table) pairs in
\* catalog order, i.e. grouped by owning table.
FKConfigs(n, targets) ==
    {c \in SeqsUpTo(TableIdSet \X targets, n) :
        \A i, j \in DOMAIN c : i < j => TableIndex(c[i][1]) <= TableIndex(c[j][1])}

\* the raw foreign-key rows of a catalog: owning table, reference and
\* constraint name, one constraint per position of c
ForeignKeyRows(c) == [i \in DOMAIN c |-> <<c[i][1], c[i][2], ConstraintNames[i]>>]

\* a catalog that delivers the row of its last constraint twice
WithRepeatedRow(rows) ==
    IF rows = <<>> THEN rows ELSE Append(rows, rows[Len(rows)])

TableType(id) == IF id = <<"DB1", "b">> THEN "VIEW" ELSE "BASE TABLE"
RowCount(id) == IF id = <<"DB1", "a">> THEN Null
                ELSE IF id = <<"DB1", "b">> THEN 1 ELSE 2
Columns(id) == IF id = <<"DB1", "a">> THEN <<"id">> ELSE <<"id", "user_id">>

\* Builder step 1, per-database normalization: the foreign-key rows grouped
\* by table
Table(id, rows) ==
    [name |-> id[2],
     table_type |-> TableType(id),
     row_count |-> RowCount(id),
     columns |-> Columns(id),
     foreign_keys |->
        LET own == SelectSeq(rows, LAMBDA p : p[1] = id)
        IN [i \in DOMAIN own |-> ForeignKey(own[i][3], own[i][2])]]

Database(name, rows) ==
    [name |-> name,
     tables |-> LET ids == SelectSeq(TableIds, LAMBDA id : id[1] = name)
                IN [i \in DOMAIN ids |-> Table(ids[i], rows)]]

\* the input of build: one record per name, in the order of names
Records(names, rows) == [i \in DOMAIN names |-> Database(names[i], rows)]

\* tableByQualifiedName: the table of that name, if the databases hold it
HasTable(databases, dbName, tableName) ==
    \E i \in DOMAIN databases :
        /\ databases[i].name = dbName
        /\ \E j \in DOMAIN databases[i].tables :
              databases[i].tables[j].name = tableName

\* Builder step 2: (referenced database, referenced table, referenced
\* column) resolves against the databases
Resolves(databases, fk) ==
    \E i \in DOMAIN databases :
        /\ databases[i].name = fk.referenced_table_schema
        /\ \E j \in DOMAIN databases[i].tables :
              /\ databases[i].tables[j].name = fk.referenced_table_name
              /\ \E k \in DOMAIN databases[i].tables[j].columns :
                    databases[i].tables[j].columns[k] = fk.referenced_column_name

Relationship(db, table, fk) ==
    [source_database |-> db.name,
     source_table |-> table.name,
     source_column |-> fk.column_name,
     target_database |-> fk.referenced_table_schema,
     target_table |-> fk.referenced_table_name,
     target_column |-> fk.referenced_column_name,
     constraint_name |-> fk.constraint_name,
     relationship_type |-> "foreign_key"]

\* TableRelationships emitting a Relationship for every foreign key
TableRelationships_Unresolved(databases, db, t) ==
    [i \in DOMAIN t.foreign_keys |-> Relationship(db, t, t.foreign_keys[i])]

\* Builder step 2: one Relationship per foreign key that resolves against
\* the assembled databases, in database / table / foreign-key order.
TableRelationships(databases, db, t) ==
    LET resolved == SelectSeq(t.foreign_keys, LAMBDA fk : Resolves(databases, fk))
    IN [i \in DOMAIN resolved |-> Relationship(db, t, resolved[i])]

\* "de-duplicate by constraint name": the first Relationship of each
\* constraint of a table is kept
SameConstraint(r1, r2) ==
    /\ r1.source_database = r2.source_database
    /\ r1.source_table = r2.source_table
    /\ r1.constraint_name = r2.constraint_name

Deduplicate(rels) ==
    LET first == SelectSeq([i \in DOMAIN rels |-> i], LAMBDA i :
                     \A k \in 1..(i - 1) : ~SameConstraint(rels[k], rels[i]))
    IN [n \in DOMAIN first |-> rels[first[n]]]

\* ResolveRelationships resolving each database's foreign keys against the
\* databases normalized so far, in one pass
ResolveRelationships_SinglePass(databases) ==
    Deduplicate(FlattenSeq([d \in DOMAIN databases |->
        FlattenSeq([j \in DOMAIN databases[d].tables |->
            TableRelationships(SubSeq(databases, 1, d), databases[d],
                               databases[d].tables[j])])]))

\* step 2 runs once every database is normalized, so that a reference to a
\* database listed later resolves
ResolveRelationships(databases) ==
    Deduplicate(FlattenSeq([d \in DOMAIN databases |->
        FlattenSeq([j \in DOMAIN databases[d].tables |->
            TableRelationships(databases, databases[d],
                               databases[d].tables[j])])]))

\* HasDuplicateNames comparing neighbouring records only
HasDuplicateNames_Neighbours(databases) ==
    \E i \in DOMAIN databases :
        i + 1 \in DOMAIN databases /\ databases[i].name = databases[i + 1].name

\* "two input entries share the same database name"
HasDuplicateNames(databases) ==
    \E i, j \in DOMAIN databases : i < j /\ databases[i].name = databases[j].name

\* the failure of build; it names the two conflicting entries
DuplicateDatabaseError(databases) ==
    LET j == CHOOSE j \in DOMAIN databases :
                 /\ \E i \in 1..(j - 1) : databases[i].name = databases[j].name
                 /\ \A k \in 1..(j - 1) :
                       ~\E i \in 1..(k - 1) : databases[i].name = databases[k].name
        i == CHOOSE i \in 1..(j - 1) : databases[i].name = databases[j].name
    IN [error |-> "DuplicateDatabaseError", entries |-> <<i, j>>]

\* build failing on a foreign key that does not resolve
build_RaisesOnUnresolved(databases) ==
    IF HasDuplicateNames(databases) THEN DuplicateDatabaseError(databases)
    ELSE IF \E d \in DOMAIN databases : \E j \in DOMAIN databases[d].tables :
              \E k \in DOMAIN databases[d].tables[j].foreign_keys :
                  ~Resolves(databases, databases[d].tables[j].foreign_keys[k])
    THEN [error |-> "UnresolvedForeignKeyError", entries |-> <<>>]
    ELSE [databases |-> databases,
          relationships |-> ResolveRelationships(databases)]

build(databases) ==
    IF HasDuplicateNames(databases) THEN DuplicateDatabaseError(databases)
    ELSE [databases |-> databases,
          relationships |-> ResolveRelationships(databases)]

\* the Ontologies the API serves: built from the configured databases
Ontologies(n, targets) ==
    {build(Records(DatabaseNames, ForeignKeyRows(c))) : c \in FKConfigs(n, targets)}

\* What a foreign key of an input can reference: a table of the catalogs,
\* a table of the unconfigured EXT, a table DB2 does not have, a column
\* DB1.a does not have.
RawTargets == FKTargets \cup {<<"DB2", "b">>, <<"DB1", "a", "user_id">>}

\* The inputs of build: records of up to Len(DatabaseNames) databases in any
\* order, a name possibly twice, with up to n constraints, the last row
\* possibly delivered twice.
BuildInputs(n) ==
    {Records(names, rows) :
        names \in SeqsUpTo({DatabaseNames[i] : i \in DOMAIN DatabaseNames},
                           Len(DatabaseNames)),
        rows \in UNION {{ForeignKeyRows(c), WithRepeatedRow(ForeignKeyRows(c))} :
                            c \in FKConfigs(n, RawTargets)}}

(***************************************************************************)
(* App: FilterState and filteredOntology.  The arrays filters.databases    *)
(* and filters.tableTypes are read through includes() and length only and  *)
(* a toggle never adds a name twice: they are kept as sets.                *)
(***************************************************************************)
ClearedFilters ==
    [databases |-> {},
     tableTypes |-> {},
     hasRelationships |-> "null",
     rowCountMin |-> Null,
     rowCountMax |-> Null,
     columnCountMin |-> Null,
     columnCountMax |-> Null]

\* TableTypeKept with the membership test inverted
TableTypeKept_Inverted(f, table) ==
    ~(Cardinality(f.tableTypes) > 0 /\ table.table_type \in f.tableTypes)

\* "Filter by table type"
TableTypeKept(f, table) ==
    ~(Cardinality(f.tableTypes) > 0 /\ table.table_type \notin f.tableTypes)

\* RowCountKept with both bounds exclusive
RowCountKept_Exclusive(f, table) ==
    /\ ~(f.rowCountMin # Null /\ OrZero(table.row_count) <= f.rowCountMin)
    /\ ~(f.rowCountMax # Null /\ OrZero(table.row_count) >= f.rowCountMax)

\* "Filter by row count"
RowCountKept(f, table) ==
    /\ ~(f.rowCountMin # Null /\ OrZero(table.row_count) < f.rowCountMin)
    /\ ~(f.rowCountMax # Null /\ OrZero(table.row_count) > f.rowCountMax)

\* ColumnCountKept comparing with a bound that is null
ColumnCountKept_NoNullTest(f, table) ==
    /\ ~(Len(table.columns) < f.columnCountMin)
    /\ ~(Len(table.columns) > f.columnCountMax)

\* "Filter by column count"
ColumnCountKept(f, table) ==
    /\ ~(f.columnCountMin # Null /\ Len(table.columns) < f.columnCountMin)
    /\ ~(f.columnCountMax # Null /\ Len(table.columns) > f.columnCountMax)

\* hasAnyRelationship counting a reference only when the ontology holds
\* the database of the referencing table
hasAnyRelationship_HeldSource(o, db, table) ==
    LET hasFK == Len(table.foreign_keys) > 0
        isReferenced == \E i \in DOMAIN o.relationships :
                            /\ o.relationships[i].target_database = db.name
                            /\ o.relationships[i].target_table = table.name
                            /\ \E k \in DOMAIN o.databases :
                                  o.databases[k].name
                                      = o.relationships[i].source_database
    IN hasFK \/ isReferenced

\* const hasFK / isReferenced / hasAnyRelationship
hasAnyRelationship(o, db, table) ==
    LET hasFK == Len(table.foreign_keys) > 0
        isReferenced == \E i \in DOMAIN o.relationships :
                            /\ o.relationships[i].target_database = db.name
                            /\ o.relationships[i].target_table = table.name
    IN hasFK \/ isReferenced

\* "Filter by relationships"
RelationshipsKept(o, f, db, table) ==
    IF f.hasRelationships # "null"
    THEN /\ ~(f.hasRelationships = "true" /\ ~hasAnyRelationship(o, db, table))
         /\ ~(f.hasRelationships # "true" /\ hasAnyRelationship(o, db, table))
    ELSE TRUE

\* the callback of db.tables.filter
TableKept(o, f, db, table) ==
    /\ TableTypeKept(f, table)
    /\ RowCountKept(f, table)
    /\ ColumnCountKept(f, table)
    /\ RelationshipsKept(o, f, db, table)

\* DatabasesByName without the test for an empty selection
DatabasesByName_NoEmptyTest(o, f) ==
    SelectSeq(o.databases, LAMBDA db : db.name \in f.databases)

\* "Filter by database names"
DatabasesByName(o, f) ==
    IF Cardinality(f.databases) > 0
    THEN SelectSeq(o.databases, LAMBDA db : db.name \in f.databases)
    ELSE o.databases

\* FilterTables without the final .filter(db => db.tables.length > 0)
FilterTables_KeepsEmpty(o, f, dbs) ==
    [i \in DOMAIN dbs |->
        [dbs[i] EXCEPT !.tables =
            SelectSeq(@, LAMBDA t : TableKept(o, f, dbs[i], t))]]

\* "Filter tables within databases", then drop the databases left empty
FilterTables(o, f, dbs) ==
    LET mapped == [i \in DOMAIN dbs |->
                     [dbs[i] EXCEPT !.tables =
                        SelectSeq(@, LAMBDA t : TableKept(o, f, dbs[i], t))]]
    IN SelectSeq(mapped, LAMBDA db : Len(db.tables) > 0)

\* the useMemo body: { ...ontology, databases: filteredDatabases }
FilterOntology(o, f) ==
    IF o = NullOntology THEN NullOntology
    ELSE [o EXCEPT !.databases = FilterTables(o, f, DatabasesByName(o, f))]

(***************************************************************************)
(* JavaScript strings.  A name or a query is a string of the model; its    *)
(* characters are what toLowerCase and includes read.                      *)
(***************************************************************************)
Chars(str) ==
    CASE str = "" -> <<>>
      [] str = "DB1" -> <<"D", "B", "1">>
      [] str = "DB2" -> <<"D", "B", "2">>
      [] str = "DB3" -> <<"D", "B", "3">>
      [] str = "a" -> <<"a">>
      [] str = "b" -> <<"b">>
      [] str = "id" -> <<"i", "d">>
      [] str = "user_id" -> <<"u", "s", "e", "r", "_", "i", "d">>
      [] str = "user" -> <<"u", "s", "e", "r">>
      [] str = "A" -> <<"A">>
      [] str = "db" -> <<"d", "b">>

\* String.prototype.toLowerCase, character by character
LowerChar(c) ==
    CASE c = "A" -> "a"
      [] c = "B" -> "b"
      [] c = "D" -> "d"
      [] OTHER -> c

toLowerCase(chars) == [i \in DOMAIN chars |-> LowerChar(chars[i])]

\* String.prototype.includes
includes(chars, query) ==
    \E i \in 0..(Len(chars) - Len(query)) :
        \A k \in DOMAIN query : chars[i + k] = query[k]

\* name.toLowerCase().includes(query), query being searchQuery.toLowerCase()
NameIncludes(name, searchQuery_) ==
    includes(toLowerCase(Chars(name)), toLowerCase(Chars(searchQuery_)))

\* what the search box can hold
SearchInputs == {"", "user", "A", "db"}

(***************************************************************************)
(* Sidebar: the schema explorer, filtered by the search query.             *)
(***************************************************************************)
\* the callback of db.tables.filter / db.tables.some
TableMatches(table, query) ==
    \/ NameIncludes(table.name, query)
    \/ \E k \in DOMAIN table.columns : NameIncludes(table.columns[k], query)

filterDatabases(databases, query) ==
    IF query = "" THEN databases
    ELSE SelectSeq(databases, LAMBDA db :
            \/ NameIncludes(db.name, query)
            \/ \E j \in DOMAIN db.tables : TableMatches(db.tables[j], query))

\* filterTables keeping the tables whose name equals the query
filterTables_ExactMatch(db, query) ==
    SelectSeq(db.tables, LAMBDA table : table.name = query)

filterTables(db, query) ==
    IF query = "" THEN db.tables
    ELSE SelectSeq(db.tables, LAMBDA table : TableMatches(table, query))

(***************************************************************************)
(* GraphView: the collapsed layout and its search filter.                  *)
(***************************************************************************)
\* `db-${db.name}`
DatabaseNodeId(dbName) == "db-" \o dbName

\* `table-${db.name}-${table.name}`
TableNodeId(dbName, tableName) == "table-" \o dbName \o "-" \o tableName

\* `${db.name}.${table.name}`, the value of focusedTable
FocusKey(dbName, tableName) == dbName \o "." \o tableName

\* focusedTable.split('.'): the two parts of a key of dot-free names
SplitKey(key) ==
    CHOOSE parts \in {"DB1", "DB2", "DB3", "EXT"} \X {"a", "b"} :
        FocusKey(parts[1], parts[2]) = key

IsSelectedDatabase(node, db) ==
    node # NoSelection /\ node.type = "database" /\ node.database = db.name

IsSelectedTable(node, db, table) ==
    /\ node # NoSelection
    /\ node.type = "table"
    /\ node.database = db.name
    /\ node.table = table.name

\* data.database of a database node is the Database object, of a table
\* node the database's name; the model keeps the name in both and tells
\* the two by the node's type
DatabaseNode(db, node, isExpanded) ==
    [id |-> DatabaseNodeId(db.name), type |-> "database", label |-> db.name,
     database |-> db.name, isSelected |-> IsSelectedDatabase(node, db),
     isExpanded |-> isExpanded]

GraphTableNode(db, table, node, focused) ==
    [id |-> TableNodeId(db.name, table.name), type |-> "table",
     label |-> table.name, database |-> db.name,
     isSelected |-> IsSelectedTable(node, db, table),
     isFocused |-> focused = FocusKey(db.name, table.name)]

ContainmentEdge(db, table) ==
    [id |-> "edge-db-" \o db.name \o "-table-" \o table.name,
     source |-> DatabaseNodeId(db.name),
     target |-> TableNodeId(db.name, table.name),
     animated |-> FALSE]

RelationshipEdge(rel, index, animated) ==
    [id |-> "rel-" \o ToString(index),
     source |-> TableNodeId(rel.source_database, rel.source_table),
     target |-> TableNodeId(rel.target_database, rel.target_table),
     animated |-> animated,
     label |-> rel.source_column]

IsExpanded(db, expanded, showAll) == db.name \in expanded \/ showAll

\* SomeNode without looking at the node list
SomeNode_Unchecked(nodeList, id) == TRUE

\* nodeList.some(n => n.id === id)
SomeNode(nodeList, id) == \E n \in DOMAIN nodeList : nodeList[n].id = id

\* lines 57-186
generateCollapsedLayout(o, node, expanded, focused, showAll) ==
    LET nodeList ==
            FlattenSeq([d \in DOMAIN o.databases |->
                LET db == o.databases[d]
                IN <<DatabaseNode(db, node, IsExpanded(db, expanded, showAll))>>
                   \o (IF IsExpanded(db, expanded, showAll)
                       THEN [t \in DOMAIN db.tables |->
                                GraphTableNode(db, db.tables[t], node, focused)]
                       ELSE <<>>)])
        containment ==
            FlattenSeq([d \in DOMAIN o.databases |->
                LET db == o.databases[d]
                IN IF IsExpanded(db, expanded, showAll)
                   THEN [t \in DOMAIN db.tables |-> ContainmentEdge(db, db.tables[t])]
                   ELSE <<>>])
        bothExist(rel) ==
            /\ SomeNode(nodeList, TableNodeId(rel.source_database, rel.source_table))
            /\ SomeNode(nodeList, TableNodeId(rel.target_database, rel.target_table))
        indices == [i \in DOMAIN o.relationships |-> i]
        ofFocused ==
            IF focused # "null" /\ ~showAll
            THEN LET dbName == SplitKey(focused)[1]
                     tableName == SplitKey(focused)[2]
                     shown == SelectSeq(indices, LAMBDA i :
                        LET rel == o.relationships[i]
                        IN /\ \/ /\ rel.source_database = dbName
                                 /\ rel.source_table = tableName
                              \/ /\ rel.target_database = dbName
                                 /\ rel.target_table = tableName
                           /\ bothExist(rel))
                 IN [n \in DOMAIN shown |->
                        RelationshipEdge(o.relationships[shown[n]], shown[n] - 1, TRUE)]
            ELSE <<>>
        ofAll ==
            IF showAll
            THEN LET shown == SelectSeq(indices, LAMBDA i : bothExist(o.relationships[i]))
                 IN [n \in DOMAIN shown |->
                        RelationshipEdge(o.relationships[shown[n]], shown[n] - 1, FALSE)]
            ELSE <<>>
    IN [nodes |-> nodeList, edges |-> containment \o ofFocused \o ofAll]

\* the filter callback of lines 198-202 calls toLowerCase on data.database:
\* a method of a string, not of the Database object a database node holds
Throws(node, query) ==
    ~NameIncludes(node.label, query) /\ node.type = "database"

NodeMatches(node, query) ==
    NameIncludes(node.label, query) \/ NameIncludes(node.database, query)

\* lines 192-208: the layout filtered by the search query, or the
\* TypeError the filter callback raises
SearchedLayout(layout, query) ==
    IF query = "" THEN layout
    ELSE IF \E n \in DOMAIN layout.nodes : Throws(layout.nodes[n], query)
    THEN [error |-> "TypeError"]
    ELSE LET filteredNodes == SelectSeq(layout.nodes, LAMBDA node :
                                  NodeMatches(node, query))
             nodeIds == {filteredNodes[n].id : n \in DOMAIN filteredNodes}
         IN [nodes |-> filteredNodes,
             edges |-> SelectSeq(layout.edges, LAMBDA edge :
                          edge.source \in nodeIds /\ edge.target \in nodeIds)]

(***************************************************************************)
(* ListView: the table rows and their sort order.                          *)
(***************************************************************************)
SortFields == {"name", "database", "rows", "columns", "relationships"}

\* the names of the catalogs in the order localeCompare gives them
Collation == <<"a", "b", "DB1", "DB2", "DB3">>

localeCompare(x, y) ==
    LET rank(str) == CHOOSE i \in DOMAIN Collation : Collation[i] = str
    IN rank(x) - rank(y)

\* lines 38-58: one row per table, in database / table order
TableRow(o, db, table) ==
    [database |-> db.name,
     tableName |-> table.name,
     tableType |-> table.table_type,
     rowCount |-> OrZero(table.row_count),
     columnCount |-> Len(table.columns),
     relationshipCount |->
        Len(SelectSeq(o.relationships, LAMBDA rel :
            \/ rel.source_database = db.name /\ rel.source_table = table.name
            \/ rel.target_database = db.name /\ rel.target_table = table.name)),
     hasFK |-> Len(table.foreign_keys) > 0]

\* the comparator of rows.sort, lines 61-82
Comparison(a, b, field, dir) ==
    LET comparison ==
            CASE field = "name" -> localeCompare(a.tableName, b.tableName)
              [] field = "database" -> localeCompare(a.database, b.database)
              [] field = "rows" -> a.rowCount - b.rowCount
              [] field = "columns" -> a.columnCount - b.columnCount
              [] field = "relationships" -> a.relationshipCount - b.relationshipCount
    IN IF dir = "asc" THEN comparison ELSE 0 - comparison

\* Array.prototype.sort: stable, rows that compare equal keep their order
Sorted(rows, field, dir) ==
    LET place(i) == 1 + Cardinality({j \in DOMAIN rows :
                        \/ Comparison(rows[j], rows[i], field, dir) < 0
                        \/ /\ Comparison(rows[j], rows[i], field, dir) = 0
                           /\ j < i})
    IN [p \in DOMAIN rows |-> rows[CHOOSE i \in DOMAIN rows : place(i) = p]]

\* the useMemo of lines 35-84
TableRows(o, field, dir) ==
    Sorted(FlattenSeq([d \in DOMAIN o.databases |->
               [t \in DOMAIN o.databases[d].tables |->
                   TableRow(o, o.databases[d], o.databases[d].tables[t])]]),
           field, dir)

(***************************************************************************)
(* FilterPanel.                                                            *)
(***************************************************************************)
allDatabases == [i \in DOMAIN ontology.databases |-> ontology.databases[i].name]

allTableTypes ==
    UNION {{ontology.databases[i].tables[j].table_type :
                j \in DOMAIN ontology.databases[i].tables} :
           i \in DOMAIN ontology.databases}

activeFilterCount(f) ==
    Cardinality(f.databases) + Cardinality(f.tableTypes)
    + (IF f.hasRelationships # "null" THEN 1 ELSE 0)
    + (IF f.rowCountMin # Null THEN 1 ELSE 0)
    + (IF f.rowCountMax # Null THEN 1 ELSE 0)
    + (IF f.columnCountMin # Null THEN 1 ELSE 0)
    + (IF f.columnCountMax # Null THEN 1 ELSE 0)

\* App: totalTableCount / filteredTableCount (the reduce over databases)
TableCount(o) == Len(FlattenSeq([i \in DOMAIN o.databases |-> o.databases[i].tables]))

\* stats.databaseCount handed to the TopBar
databaseCount == Len(filteredOntology.databases)

\* {filteredTableCount < totalTableCount && <div className="filter-badge">}
FilterBadgeShown == TableCount(filteredOntology) < TableCount(ontology)

\* The filter panel is rendered by the main view only.
MainViewRendered == ~loading /\ error = "null" /\ ontology # NullOntology

\* Event handlers run between renders, never inside a running effect.
HandlerMayRun == pc \in {"unmounted", "done"} /\ ~crashed

\* `${dbName}.${tableName}`
Key(dbName, tableName) == dbName \o "." \o tableName

\* `table-${database}-${table}`
NodeId(dbName, tableName) == "table-" \o dbName \o "-" \o tableName

\* A call of getTableRelationships: its arguments, its local `related`, the
\* index of the relationship forEach is at, and the place in the body.
Call(dbName, tableName, currentDepth, visited) ==
    [dbName |-> dbName, tableName |-> tableName,
     currentDepth |-> currentDepth, visited |-> visited,
     related |-> <<>>, i |-> 1, at |-> "enter"]

\* TableFound looking the table name up in every database
TableFound_AnyDatabase(o, node) ==
    \E i \in DOMAIN o.databases :
        \E j \in DOMAIN o.databases[i].tables :
            o.databases[i].tables[j].name = node.table

\* the selected table, as generateLineageLayout looks it up (lines 119-124)
TableFound(o, node) ==
    \E i \in DOMAIN o.databases :
        /\ o.databases[i].name = node.database
        /\ \A k \in 1..(i - 1) : o.databases[k].name # node.database
        /\ \E j \in DOMAIN o.databases[i].tables :
              o.databases[i].tables[j].name = node.table

\* lines 110-112
NoTableSelected(node) == node = NoSelection \/ node.type # "table"

TableNode(dbName, tableName, isSelected) ==
    [id |-> NodeId(dbName, tableName), label |-> tableName,
     database |-> dbName, isSelected |-> isSelected]

\* generateLineageLayout, lines 106-145: the guards, the centre node, the
\* outermost call of getTableRelationships
LayoutBegin(o, node) ==
    IF NoTableSelected(node) \/ ~TableFound(o, node)
    THEN /\ nodes' = <<>>
         /\ edges' = <<>>
         /\ related' = <<>>
         /\ stack' = <<>>
         /\ pc' = "done"
    ELSE /\ nodes' = <<TableNode(node.database, node.table, TRUE)>>
         /\ edges' = <<>>
         /\ related' = <<>>
         /\ stack' = <<Call(node.database, node.table, 1, {})>>
         /\ pc' = "traverse"

\* useEffect([generateLineageLayout, ...]): a mounted LineageView lays out
\* again as soon as its ontology prop, selectedNode, depth or direction
\* changed.
LineageEffect(o, node) ==
    IF pc = "unmounted"
    THEN UNCHANGED <<nodes, edges, pc, stack, related>>
    ELSE LayoutBegin(o, node)

\* What the main view derives once a handler has run: the rows of a
\* mounted ListView (useMemo) and the nodes and edges of a mounted
\* GraphView (the effect of lines 189-212, which throws where the search
\* filter does).
RenderMainView ==
    LET rendered == ~loading' /\ error' = "null" /\ ontology' # NullOntology
    IN /\ tableRows' = IF rendered /\ viewMode' = "list"
                       THEN TableRows(filteredOntology', sortField', sortDirection')
                       ELSE <<>>
       /\ IF rendered /\ viewMode' = "graph"
          THEN \E result \in {SearchedLayout(
                      generateCollapsedLayout(filteredOntology', selectedNode',
                          expandedDatabases', focusedTable', showAllNodes'),
                      debouncedSearchQuery')} :
                  IF "error" \in DOMAIN result
                  THEN crashed' = TRUE /\ UNCHANGED <<graphNodes, graphEdges>>
                  ELSE /\ graphNodes' = result.nodes
                       /\ graphEdges' = result.edges
                       /\ crashed' = crashed
          ELSE /\ graphNodes' = <<>>
               /\ graphEdges' = <<>>
               /\ crashed' = crashed

\* onFiltersChange = setFilters; the model keeps at most MaxActiveFilters
\* filters active at a time.
onFiltersChange(f) ==
    /\ MainViewRendered
    /\ HandlerMayRun
    /\ activeFilterCount(f) <= MaxActiveFilters
    /\ filters' = f
    /\ filteredOntology' = FilterOntology(ontology, f)
    /\ LineageEffect(filteredOntology', selectedNode)
    /\ UNCHANGED <<buildVars, uiVars, graphState>>
    /\ UNCHANGED <<ontology, loading, error, selectedNode, depth, direction>>
    /\ RenderMainView

\* the array a checkbox toggle leaves: x filtered out if included, else
\* appended
Toggled(s, x) == IF x \in s THEN s \ {x} ELSE s \cup {x}

toggleDatabase ==
    /\ ontology # NullOntology
    /\ \E i \in DOMAIN allDatabases :
          onFiltersChange([filters EXCEPT !.databases = Toggled(@, allDatabases[i])])

toggleTableType ==
    /\ ontology # NullOntology
    /\ \E type \in allTableTypes :
          onFiltersChange([filters EXCEPT !.tableTypes = Toggled(@, type)])

setRelationshipFilter ==
    \E value \in {"null", "true", "false"} :
        onFiltersChange([filters EXCEPT !.hasRelationships = value])

\* e.target.value ? parseInt(e.target.value) : null
RangeInputs == {Null} \cup (0..MaxCount)

setRowCountMin ==
    \E v \in RangeInputs : onFiltersChange([filters EXCEPT !.rowCountMin = v])

setRowCountMax ==
    \E v \in RangeInputs : onFiltersChange([filters EXCEPT !.rowCountMax = v])

setColumnCountMin ==
    \E v \in RangeInputs : onFiltersChange([filters EXCEPT !.columnCountMin = v])

setColumnCountMax ==
    \E v \in RangeInputs : onFiltersChange([filters EXCEPT !.columnCountMax = v])

\* the Clear All button is shown while a filter is active
clearAllFilters ==
    /\ activeFilterCount(filters) > 0
    /\ onFiltersChange(ClearedFilters)

(***************************************************************************)
(* App: loadOntology.  The fetch started on mount is in flight while       *)
(* loading is true; Retry is offered by the error screen.                  *)
(***************************************************************************)
fetchResolved ==
    /\ loading
    /\ \E data \in Ontologies(MaxFetchedFKs, FKTargets) :
          /\ ontology' = data
          /\ filteredOntology' = FilterOntology(data, filters)
          /\ loading' = FALSE
    /\ UNCHANGED <<buildVars, uiVars, graphState>>
    /\ UNCHANGED <<error, filters, selectedNode, lineageVars>>
    /\ RenderMainView

fetchRejected ==
    /\ loading
    /\ \E message \in {"API Error: Not Found", "Failed to load ontology"} :
          error' = message
    /\ loading' = FALSE
    /\ UNCHANGED <<buildVars, uiVars, graphState>>
    /\ UNCHANGED <<ontology, filters, filteredOntology, selectedNode, lineageVars>>
    /\ RenderMainView

\* loadOntology without setError(null)
loadOntology_KeepsError ==
    /\ ~loading
    /\ error # "null" \/ ontology = NullOntology
    /\ loading' = TRUE
    /\ UNCHANGED <<buildVars, uiVars, graphState>>
    /\ UNCHANGED <<error, ontology, filters, filteredOntology, selectedNode, lineageVars>>
    /\ RenderMainView

\* ErrorScreen's onRetry = loadOntology, up to the await
loadOntology ==
    /\ ~loading
    /\ error # "null" \/ ontology = NullOntology
    /\ loading' = TRUE
    /\ error' = "null"
    /\ UNCHANGED <<buildVars, uiVars, graphState>>
    /\ UNCHANGED <<ontology, filters, filteredOntology, selectedNode, lineageVars>>
    /\ RenderMainView

Init ==
    /\ ontology = NullOntology
    /\ loading = TRUE
    /\ error = "null"
    /\ filters = ClearedFilters
    /\ filteredOntology = NullOntology
    /\ selectedNode = NoSelection
    /\ depth = 1
    /\ direction = "both"
    /\ nodes = <<>>
    /\ edges = <<>>
    /\ pc = "unmounted"
    /\ stack = <<>>
    /\ related = <<>>
    /\ rawMetadata = <<>>
    /\ built = NullOntology
    /\ viewMode = "graph"
    /\ searchQuery = ""
    /\ debouncedSearchQuery = ""
    /\ sortField = "name"
    /\ sortDirection = "asc"
    /\ tableRows = <<>>
    /\ expandedDatabases = {}
    /\ focusedTable = "null"
    /\ showAllNodes = FALSE
    /\ graphNodes = <<>>
    /\ graphEdges = <<>>
    /\ crashed = FALSE

Next ==
    \/ fetchResolved
    \/ fetchRejected
    \/ loadOntology
    \/ toggleDatabase
    \/ toggleTableType
    \/ setRelationshipFilter
    \/ setRowCountMin
    \/ setRowCountMax
    \/ setColumnCountMin
    \/ setColumnCountMax
    \/ clearAllFilters

Spec == Init /\ [][Next]_vars

(***************************************************************************)
(* LineageView.  Its `ontology` prop is App's filteredOntology.            *)
(***************************************************************************)
\* the depth buttons [1, 2, 3]
DepthButtons == {1, 2, 3}
Directions == {"upstream", "downstream", "both"}

\* IsDownstreamOf comparing the table name only
IsDownstreamOf_TableOnly(dir, rel, dbName, tableName) ==
    /\ dir = "downstream" \/ dir = "both"
    /\ rel.source_table = tableName

\* the test of the "Downstream: tables this table references" branch
IsDownstreamOf(dir, rel, dbName, tableName) ==
    /\ dir = "downstream" \/ dir = "both"
    /\ rel.source_database = dbName
    /\ rel.source_table = tableName

\* IsUpstreamOf comparing the table name only
IsUpstreamOf_TableOnly(dir, rel, dbName, tableName) ==
    /\ dir = "upstream" \/ dir = "both"
    /\ rel.target_table = tableName

\* the test of the "Upstream: tables that reference this table" branch
IsUpstreamOf(dir, rel, dbName, tableName) ==
    /\ dir = "upstream" \/ dir = "both"
    /\ rel.target_database = dbName
    /\ rel.target_table = tableName

\* the test guarding both nested calls
Recurses(currentDepth, maxDepth) == currentDepth < maxDepth

\* NestedDepth passing currentDepth on unchanged
NestedDepth_NoIncrement(currentDepth) == currentDepth

\* the currentDepth argument of both nested calls
NestedDepth(currentDepth) == currentDepth + 1

Top == stack[Len(stack)]
SetTop(frame) == [stack EXCEPT ![Len(stack)] = frame]

\* the early returns of getTableRelationships
ReturnsAtOnce(frame, maxDepth) ==
    \/ frame.currentDepth > maxDepth
    \/ Key(frame.dbName, frame.tableName) \in frame.visited

\* forEach moves on: the upstream branch of this relationship after its
\* downstream branch, then the next relationship, then `return related`.
Advance(frame, rels) ==
    IF frame.at = "down" THEN [frame EXCEPT !.at = "up"]
    ELSE IF frame.i < Len(rels) THEN [frame EXCEPT !.i = @ + 1, !.at = "down"]
    ELSE [frame EXCEPT !.at = "exit"]

\* lines 43-49: the guards, visited.add(key), related = []
getTableRelationshipsEnter ==
    /\ pc = "traverse"
    /\ Top.at = "enter"
    /\ stack' =
         IF ReturnsAtOnce(Top, depth)
         THEN SetTop([Top EXCEPT !.at = "exit"])
         ELSE SetTop([Top EXCEPT
                 !.visited = @ \cup {Key(Top.dbName, Top.tableName)},
                 !.at = IF Len(filteredOntology.relationships) = 0
                        THEN "exit" ELSE "down"])
    /\ UNCHANGED <<buildVars, uiVars, graphState, renderedVars>>
    /\ UNCHANGED <<appVars, selectedNode, depth, direction, nodes, edges, pc, related>>

\* Branch tagging the pushed endpoint with the depth of the nested call
Branch_NestedDepthTag(frame, rels, matches, db, table, dirTag) ==
    IF matches
    THEN LET pushed == [frame EXCEPT !.related =
                          Append(@, [db |-> db, table |-> table,
                                     depth |-> frame.currentDepth + 1,
                                     direction |-> dirTag])]
         IN IF Recurses(frame.currentDepth, depth)
            THEN Append(SetTop(pushed),
                        Call(db, table, NestedDepth(frame.currentDepth),
                             frame.visited))
            ELSE SetTop(Advance(pushed, rels))
    ELSE SetTop(Advance(frame, rels))

\* one branch of the forEach callback: push the endpoint, then either call
\* getTableRelationships on it with a copy of visited, or move on
Branch(frame, rels, matches, db, table, dirTag) ==
    IF matches
    THEN LET pushed == [frame EXCEPT !.related =
                          Append(@, [db |-> db, table |-> table,
                                     depth |-> frame.currentDepth,
                                     direction |-> dirTag])]
         IN IF Recurses(frame.currentDepth, depth)
            THEN Append(SetTop(pushed),
                        Call(db, table, NestedDepth(frame.currentDepth),
                             frame.visited))
            ELSE SetTop(Advance(pushed, rels))
    ELSE SetTop(Advance(frame, rels))

\* lines 52-74
getTableRelationshipsDownstream ==
    /\ pc = "traverse"
    /\ Top.at = "down"
    /\ LET rels == filteredOntology.relationships
           rel == rels[Top.i]
       IN stack' = Branch(Top, rels,
                          IsDownstreamOf(direction, rel, Top.dbName, Top.tableName),
                          rel.target_database, rel.target_table, "target")
    /\ UNCHANGED <<buildVars, uiVars, graphState, renderedVars>>
    /\ UNCHANGED <<appVars, selectedNode, depth, direction, nodes, edges, pc, related>>

\* getTableRelationshipsUpstream taking the branch whatever the direction
getTableRelationshipsUpstream_AnyDirection ==
    /\ pc = "traverse"
    /\ Top.at = "up"
    /\ LET rels == filteredOntology.relationships
           rel == rels[Top.i]
       IN stack' = Branch(Top, rels,
                          IsUpstreamOf("both", rel, Top.dbName, Top.tableName),
                          rel.source_database, rel.source_table, "source")
    /\ UNCHANGED <<buildVars, uiVars, graphState, renderedVars>>
    /\ UNCHANGED <<appVars, selectedNode, depth, direction, nodes, edges, pc, related>>

\* lines 76-98
getTableRelationshipsUpstream ==
    /\ pc = "traverse"
    /\ Top.at = "up"
    /\ LET rels == filteredOntology.relationships
           rel == rels[Top.i]
       IN stack' = Branch(Top, rels,
                          IsUpstreamOf(direction, rel, Top.dbName, Top.tableName),
                          rel.source_database, rel.source_table, "source")
    /\ UNCHANGED <<buildVars, uiVars, graphState, renderedVars>>
    /\ UNCHANGED <<appVars, selectedNode, depth, direction, nodes, edges, pc, related>>

\* `return related` of a nested call, and the caller's related.push(...nested)
getTableRelationshipsReturn ==
    /\ pc = "traverse"
    /\ Len(stack) > 1
    /\ Top.at = "exit"
    /\ LET caller == stack[Len(stack) - 1]
           joined == [caller EXCEPT !.related = @ \o Top.related]
       IN stack' = [SubSeq(stack, 1, Len(stack) - 1) EXCEPT
                      ![Len(stack) - 1] =
                          Advance(joined, filteredOntology.relationships)]
    /\ UNCHANGED <<buildVars, uiVars, graphState, renderedVars>>
    /\ UNCHANGED <<appVars, selectedNode, depth, direction, nodes, edges, pc, related>>

\* the layout effect of the mount
generateLineageLayoutStart ==
    /\ pc = "layout"
    /\ LayoutBegin(filteredOntology, selectedNode)
    /\ UNCHANGED <<buildVars, uiVars, graphState, renderedVars>>
    /\ UNCHANGED <<appVars, selectedNode, depth, direction>>

\* existing.some(...) || existing.push(...), over the items in order: an
\* item is pushed unless an earlier item had its key
PushUnique(items) ==
    LET first == SelectSeq([i \in DOMAIN items |-> i], LAMBDA i :
                    \A j \in 1..(i - 1) :
                        Key(items[j].db, items[j].table)
                            # Key(items[i].db, items[i].table))
    IN [k \in DOMAIN first |->
          [db |-> items[first[k]].db, table |-> items[first[k]].table]]

\* lines 147-161 for one of the two maps: depth -> tables, no table twice
\* within a depth
GroupByDepth(rel, dirTag) ==
    LET mine == SelectSeq(rel, LAMBDA r : r.direction = dirTag)
    IN [d \in {mine[i].depth : i \in DOMAIN mine} |->
          PushUnique(SelectSeq(mine, LAMBDA r : r.depth = d))]

\* the keys of such a map in insertion order: a depth is set when no earlier
\* item had it
DepthOrder(items) ==
    LET first == SelectSeq([i \in DOMAIN items |-> i], LAMBDA i :
                    \A j \in 1..(i - 1) : items[j].depth # items[i].depth)
    IN [k \in DOMAIN first |-> items[first[k]].depth]

\* lines 163-217 for one of the two maps: a node per table the ontology holds
LayerNodes(o, rel, dirTag) ==
    LET map == GroupByDepth(rel, dirTag)
        order == DepthOrder(SelectSeq(rel, LAMBDA r : r.direction = dirTag))
        layer(d) == LET held == SelectSeq(map[d], LAMBDA item :
                                    TableFound(o, [database |-> item.db,
                                                   table |-> item.table]))
                    IN [k \in DOMAIN held |->
                          TableNode(held[k].db, held[k].table, FALSE)]
    IN FlattenSeq([k \in DOMAIN order |-> layer(order[k])])

\* lines 219-238
LineageEdges(o, nodeList) ==
    LET found(id) == \E k \in DOMAIN nodeList : nodeList[k].id = id
        idx == SelectSeq([i \in DOMAIN o.relationships |-> i], LAMBDA i :
                  /\ found(NodeId(o.relationships[i].source_database,
                                  o.relationships[i].source_table))
                  /\ found(NodeId(o.relationships[i].target_database,
                                  o.relationships[i].target_table)))
    IN [k \in DOMAIN idx |->
          [id |-> idx[k] - 1,
           source |-> NodeId(o.relationships[idx[k]].source_database,
                             o.relationships[idx[k]].source_table),
           target |-> NodeId(o.relationships[idx[k]].target_database,
                             o.relationships[idx[k]].target_table)]]

\* lines 140-247: the outermost call returns; group, place, setNodes, setEdges
generateLineageLayoutFinish ==
    /\ pc = "traverse"
    /\ Len(stack) = 1
    /\ Top.at = "exit"
    /\ \E o \in {filteredOntology} :
         \E nodeList \in {nodes \o LayerNodes(o, Top.related, "source")
                                \o LayerNodes(o, Top.related, "target")} :
            /\ nodes' = nodeList
            /\ edges' = LineageEdges(o, nodeList)
    /\ related' = Top.related
    /\ stack' = <<>>
    /\ pc' = "done"
    /\ UNCHANGED <<buildVars, uiVars, graphState, renderedVars>>
    /\ UNCHANGED <<appVars, selectedNode, depth, direction>>

\* the two maps generateLineageLayout built last
upstream == GroupByDepth(related, "source")
downstream == GroupByDepth(related, "target")

setDepth ==
    /\ HandlerMayRun
    /\ \E d \in DepthButtons : depth' = d
    /\ LineageEffect(filteredOntology, selectedNode)
    /\ UNCHANGED <<buildVars, uiVars, graphState, renderedVars>>
    /\ UNCHANGED <<appVars, selectedNode, direction>>

setDirection ==
    /\ HandlerMayRun
    /\ \E dir \in Directions : direction' = dir
    /\ LineageEffect(filteredOntology, selectedNode)
    /\ UNCHANGED <<buildVars, uiVars, graphState, renderedVars>>
    /\ UNCHANGED <<appVars, selectedNode, depth>>

\* setSelectedNode
onSelectNode(node) ==
    /\ MainViewRendered
    /\ HandlerMayRun
    /\ selectedNode' = node
    /\ LineageEffect(filteredOntology, node)
    /\ UNCHANGED <<buildVars, uiVars, graphState>>
    /\ UNCHANGED <<appVars, depth, direction>>
    /\ RenderMainView

\* Sidebar / ListView / a lineage node: a table the filtered ontology shows
selectTable ==
    /\ MainViewRendered
    /\ \E i \in DOMAIN filteredOntology.databases :
      \E j \in DOMAIN filteredOntology.databases[i].tables :
        onSelectNode([type |-> "table",
                      database |-> filteredOntology.databases[i].name,
                      table |-> filteredOntology.databases[i].tables[j].name])

\* outgoingRelationships comparing the table name only
outgoingRelationships_TableOnly(o, node) ==
    SelectSeq(o.relationships, LAMBDA rel : rel.source_table = node.table)

\* DetailPanel.renderTableDetails, "Find relationships": the outgoing list
outgoingRelationships(o, node) ==
    SelectSeq(o.relationships, LAMBDA rel :
        rel.source_database = node.database /\ rel.source_table = node.table)

\* DetailPanel.renderTableDetails: the incoming list
incomingRelationships(o, node) ==
    SelectSeq(o.relationships, LAMBDA rel :
        rel.target_database = node.database /\ rel.target_table = node.table)

\* DetailPanel renders the two lists of a selected table it finds
TableDetailsRendered(o, node) ==
    /\ o # NullOntology
    /\ ~NoTableSelected(node)
    /\ \E i \in DOMAIN o.databases :
          /\ o.databases[i].name = node.database
          /\ \A k \in 1..(i - 1) : o.databases[k].name # node.database
          /\ \E j \in DOMAIN o.databases[i].tables :
                o.databases[i].tables[j].name = node.table

\* DetailPanel: the other end of a relationship of the selected table
selectRelated ==
    /\ MainViewRendered
    /\ ~NoTableSelected(selectedNode)
    /\ TableFound(filteredOntology, selectedNode)
    /\ \E i \in DOMAIN filteredOntology.relationships :
         LET rel == filteredOntology.relationships[i]
         IN \/ /\ rel.source_database = selectedNode.database
               /\ rel.source_table = selectedNode.table
               /\ onSelectNode([type |-> "table", database |-> rel.target_database,
                                table |-> rel.target_table])
            \/ /\ rel.target_database = selectedNode.database
               /\ rel.target_table = selectedNode.table
               /\ onSelectNode([type |-> "table", database |-> rel.source_database,
                                table |-> rel.source_table])

\* Breadcrumbs Home / DetailPanel onClose
clearSelection ==
    /\ selectedNode # NoSelection
    /\ onSelectNode(NoSelection)

\* The lineage view mounted on a loaded App.
LineageInit ==
    /\ ontology \in Ontologies(MaxFKs, TableIdSet)
    /\ loading = FALSE
    /\ error = "null"
    /\ filters = ClearedFilters
    /\ filteredOntology = FilterOntology(ontology, filters)
    /\ selectedNode = NoSelection
    /\ depth = 1
    /\ direction = "both"
    /\ nodes = <<>>
    /\ edges = <<>>
    /\ pc = "layout"
    /\ stack = <<>>
    /\ related = <<>>
    /\ rawMetadata = <<>>
    /\ built = NullOntology
    /\ viewMode = "lineage"
    /\ searchQuery = ""
    /\ debouncedSearchQuery = ""
    /\ sortField = "name"
    /\ sortDirection = "asc"
    /\ tableRows = <<>>
    /\ expandedDatabases = {}
    /\ focusedTable = "null"
    /\ showAllNodes = FALSE
    /\ graphNodes = <<>>
    /\ graphEdges = <<>>
    /\ crashed = FALSE

LineageNext ==
    \/ generateLineageLayoutStart
    \/ getTableRelationshipsEnter
    \/ getTableRelationshipsDownstream
    \/ getTableRelationshipsUpstream
    \/ getTableRelationshipsReturn
    \/ generateLineageLayoutFinish
    \/ setDepth
    \/ setDirection
    \/ selectTable
    \/ selectRelated
    \/ clearSelection
    \/ toggleDatabase
    \/ clearAllFilters

\* The effect runs to completion once started.
LayoutStep ==
    \/ generateLineageLayoutStart
    \/ getTableRelationshipsEnter
    \/ getTableRelationshipsDownstream
    \/ getTableRelationshipsUpstream
    \/ getTableRelationshipsReturn
    \/ generateLineageLayoutFinish

LineageSpec == LineageInit /\ [][LineageNext]_vars /\ WF_vars(LayoutStep)

\* The lineage view alone: the App leaves the filters cleared and every
\* selection is a table of the ontology.
TraversalNext ==
    \/ generateLineageLayoutStart
    \/ getTableRelationshipsEnter
    \/ getTableRelationshipsDownstream
    \/ getTableRelationshipsUpstream
    \/ getTableRelationshipsReturn
    \/ generateLineageLayoutFinish
    \/ setDepth
    \/ setDirection
    \/ selectTable

TraversalSpec == LineageInit /\ [][TraversalNext]_vars /\ WF_vars(LayoutStep)

(***************************************************************************)
(* TopBar: view mode and search box.  A view keeps its own state while it  *)
(* is mounted; the view mounted by a mode change starts from its initial   *)
(* state.                                                                  *)
(***************************************************************************)

\* onViewModeChange = setViewMode
setViewMode(mode) ==
    /\ MainViewRendered
    /\ HandlerMayRun
    /\ mode # viewMode
    /\ viewMode' = mode
    /\ pc' = IF mode = "lineage" THEN "layout" ELSE "unmounted"
    /\ depth' = 1
    /\ direction' = "both"
    /\ nodes' = <<>>
    /\ edges' = <<>>
    /\ stack' = <<>>
    /\ related' = <<>>
    /\ sortField' = "name"
    /\ sortDirection' = "asc"
    /\ expandedDatabases' = {}
    /\ focusedTable' = "null"
    /\ showAllNodes' = FALSE
    /\ UNCHANGED <<buildVars, appVars, selectedNode, searchQuery, debouncedSearchQuery>>
    /\ RenderMainView

\* the mode buttons of the top bar
showList == setViewMode("list")
showTree == setViewMode("tree")
showGraph == setViewMode("graph")
showLineage == setViewMode("lineage")

\* onSearchChange = setSearchQuery
setSearchQuery(query) ==
    /\ MainViewRendered
    /\ HandlerMayRun
    /\ query # searchQuery
    /\ searchQuery' = query
    /\ UNCHANGED <<buildVars, appVars, selectedNode, lineageVars, graphState>>
    /\ UNCHANGED <<viewMode, debouncedSearchQuery, sortField, sortDirection>>
    /\ UNCHANGED renderedVars

\* the user types one of the queries, or clears the box
typeQuery == \E query \in SearchInputs : setSearchQuery(query)
typeDatabaseQuery == setSearchQuery("db")
clearQuery == setSearchQuery("")

\* useDebounce(searchQuery, 300): the delay has passed since the last
\* change of the query
debounceElapsed ==
    /\ MainViewRendered
    /\ HandlerMayRun
    /\ debouncedSearchQuery # searchQuery
    /\ debouncedSearchQuery' = searchQuery
    /\ UNCHANGED <<buildVars, appVars, selectedNode, lineageVars, graphState>>
    /\ UNCHANGED <<viewMode, searchQuery, sortField, sortDirection>>
    /\ RenderMainView

(***************************************************************************)
(* ListView: the sortable headers.                                         *)
(***************************************************************************)
\* handleSort with a sort that reorders the tables of the ontology prop
\* and of the loaded Ontology in place
handleSort_InPlace(field) ==
    /\ MainViewRendered
    /\ HandlerMayRun
    /\ viewMode = "list"
    /\ IF sortField = field
       THEN /\ sortDirection' = (IF sortDirection = "asc" THEN "desc" ELSE "asc")
            /\ UNCHANGED sortField
       ELSE /\ sortField' = field
            /\ sortDirection' = "asc"
    /\ ontology' = [ontology EXCEPT !.databases =
                       [d \in DOMAIN @ |-> [@[d] EXCEPT !.tables = ReverseSeq(@)]]]
    /\ filteredOntology' = FilterOntology(ontology', filters)
    /\ UNCHANGED <<buildVars, loading, error, filters, selectedNode, lineageVars>>
    /\ UNCHANGED <<graphState, viewMode, searchQuery, debouncedSearchQuery>>
    /\ RenderMainView

handleSort(field) ==
    /\ MainViewRendered
    /\ HandlerMayRun
    /\ viewMode = "list"
    /\ IF sortField = field
       THEN /\ sortDirection' = (IF sortDirection = "asc" THEN "desc" ELSE "asc")
            /\ UNCHANGED sortField
       ELSE /\ sortField' = field
            /\ sortDirection' = "asc"
    /\ UNCHANGED <<buildVars, appVars, selectedNode, lineageVars, graphState>>
    /\ UNCHANGED <<viewMode, searchQuery, debouncedSearchQuery>>
    /\ RenderMainView

\* clickSortHeader with a handler that leaves the direction as it is when
\* another field becomes the active one
clickSortHeader_KeepsDirection ==
    \E field \in SortFields :
        /\ MainViewRendered
        /\ HandlerMayRun
        /\ viewMode = "list"
        /\ IF sortField = field
           THEN /\ sortDirection' = (IF sortDirection = "asc" THEN "desc" ELSE "asc")
                /\ UNCHANGED sortField
           ELSE /\ sortField' = field
                /\ UNCHANGED sortDirection
        /\ UNCHANGED <<buildVars, appVars, selectedNode, lineageVars, graphState>>
        /\ UNCHANGED <<viewMode, searchQuery, debouncedSearchQuery>>
        /\ RenderMainView

clickSortHeader == \E field \in SortFields : handleSort(field)

(***************************************************************************)
(* GraphView: clicks on the nodes shown and the Expand All button.         *)
(***************************************************************************)
GraphHandlerMayRun == MainViewRendered /\ HandlerMayRun /\ viewMode = "graph"

\* data.onSelect of a database node: onSelectNode, toggleDatabaseExpansion
clickDatabaseNode ==
    /\ GraphHandlerMayRun
    /\ \E n \in DOMAIN graphNodes :
          /\ graphNodes[n].type = "database"
          /\ selectedNode' = [type |-> "database", database |-> graphNodes[n].label]
          /\ expandedDatabases' = Toggled(expandedDatabases, graphNodes[n].label)
    /\ focusedTable' = "null"
    /\ UNCHANGED <<buildVars, appVars, lineageVars, uiVars, showAllNodes>>
    /\ RenderMainView

\* data.onSelect of a table node: onSelectNode, setFocusedTable
clickTableNode ==
    /\ GraphHandlerMayRun
    /\ \E n \in DOMAIN graphNodes :
          /\ graphNodes[n].type = "table"
          /\ selectedNode' = [type |-> "table", database |-> graphNodes[n].database,
                              table |-> graphNodes[n].label]
          /\ focusedTable' = FocusKey(graphNodes[n].database, graphNodes[n].label)
    /\ UNCHANGED <<buildVars, appVars, lineageVars, uiVars>>
    /\ UNCHANGED <<expandedDatabases, showAllNodes>>
    /\ RenderMainView

\* Expand All / Collapse All
toggleShowAllNodes ==
    /\ GraphHandlerMayRun
    /\ showAllNodes' = ~showAllNodes
    /\ UNCHANGED <<buildVars, appVars, selectedNode, lineageVars, uiVars>>
    /\ UNCHANGED <<expandedDatabases, focusedTable>>
    /\ RenderMainView

\* The graph view mounted on a loaded App, the search box in use.
SearchInit ==
    /\ ontology \in Ontologies(MaxFetchedFKs, TableIdSet)
    /\ loading = FALSE
    /\ error = "null"
    /\ filters = ClearedFilters
    /\ filteredOntology = FilterOntology(ontology, filters)
    /\ selectedNode = NoSelection
    /\ depth = 1
    /\ direction = "both"
    /\ nodes = <<>>
    /\ edges = <<>>
    /\ pc = "unmounted"
    /\ stack = <<>>
    /\ related = <<>>
    /\ rawMetadata = <<>>
    /\ built = NullOntology
    /\ viewMode = "graph"
    /\ searchQuery = ""
    /\ debouncedSearchQuery = ""
    /\ sortField = "name"
    /\ sortDirection = "asc"
    /\ tableRows = <<>>
    /\ expandedDatabases = {}
    /\ focusedTable = "null"
    /\ showAllNodes = FALSE
    /\ graphNodes =
          generateCollapsedLayout(filteredOntology, NoSelection, {}, "null", FALSE).nodes
    /\ graphEdges = <<>>
    /\ crashed = FALSE

SearchNext ==
    \/ showTree
    \/ showGraph
    \/ typeQuery
    \/ debounceElapsed
    \/ clickDatabaseNode
    \/ clickTableNode
    \/ toggleShowAllNodes

SearchSpec == SearchInit /\ [][SearchNext]_vars

(***************************************************************************)
(* The loaded App with the read operations of its views: the filter       *)
(* panel, the four view modes, the search box, the sortable list, the      *)
(* lineage traversal and the relationship links of the detail panel.  The  *)
(* foreign keys of the catalogs reference DB1.a.                           *)
(***************************************************************************)
ReadInit ==
    /\ ontology \in Ontologies(MaxFetchedFKs, {<<"DB1", "a">>})
    /\ loading = FALSE
    /\ error = "null"
    /\ filters = ClearedFilters
    /\ filteredOntology = FilterOntology(ontology, filters)
    /\ selectedNode = NoSelection
    /\ depth = 1
    /\ direction = "both"
    /\ nodes = <<>>
    /\ edges = <<>>
    /\ pc = "unmounted"
    /\ stack = <<>>
    /\ related = <<>>
    /\ rawMetadata = <<>>
    /\ built = NullOntology
    /\ viewMode = "graph"
    /\ searchQuery = ""
    /\ debouncedSearchQuery = ""
    /\ sortField = "name"
    /\ sortDirection = "asc"
    /\ tableRows = <<>>
    /\ expandedDatabases = {}
    /\ focusedTable = "null"
    /\ showAllNodes = FALSE
    /\ graphNodes =
          generateCollapsedLayout(filteredOntology, NoSelection, {}, "null", FALSE).nodes
    /\ graphEdges = <<>>
    /\ crashed = FALSE

ReadNext ==
    \/ toggleTableType
    \/ clearAllFilters
    \/ showList
    \/ showTree
    \/ showGraph
    \/ showLineage
    \/ typeDatabaseQuery
    \/ clearQuery
    \/ debounceElapsed
    \/ clickSortHeader
    \/ generateLineageLayoutStart
    \/ getTableRelationshipsEnter
    \/ getTableRelationshipsDownstream
    \/ getTableRelationshipsUpstream
    \/ getTableRelationshipsReturn
    \/ generateLineageLayoutFinish
    \/ setDepth
    \/ setDirection
    \/ selectTable
    \/ selectRelated

ReadSpec == ReadInit /\ [][ReadNext]_vars

(***************************************************************************)
(* The Builder applied to an input.                                        *)
(***************************************************************************)
runBuild ==
    /\ built = NullOntology
    /\ built' = build(rawMetadata)
    /\ UNCHANGED <<appVars, selectedNode, lineageVars, rawMetadata>>
    /\ UNCHANGED <<uiVars, graphState, renderedVars>>

BuildInit ==
    /\ ontology = NullOntology
    /\ loading = TRUE
    /\ error = "null"
    /\ filters = ClearedFilters
    /\ filteredOntology = NullOntology
    /\ selectedNode = NoSelection
    /\ depth = 1
    /\ direction = "both"
    /\ nodes = <<>>
    /\ edges = <<>>
    /\ pc = "unmounted"
    /\ stack = <<>>
    /\ related = <<>>
    /\ rawMetadata \in BuildInputs(MaxFKs)
    /\ built = NullOntology
    /\ viewMode = "graph"
    /\ searchQuery = ""
    /\ debouncedSearchQuery = ""
    /\ sortField = "name"
    /\ sortDirection = "asc"
    /\ tableRows = <<>>
    /\ expandedDatabases = {}
    /\ focusedTable = "null"
    /\ showAllNodes = FALSE
    /\ graphNodes = <<>>
    /\ graphEdges = <<>>
    /\ crashed = FALSE

BuildNext == runBuild

BuildSpec == BuildInit /\ [][BuildNext]_vars

(***************************************************************************)
(* Vocabulary of the properties.                                           *)
(***************************************************************************)
\* the qualified names of the tables an Ontology holds
Tables(o) ==
    UNION {{<<o.databases[i].name, o.databases[i].tables[j].name>> :
                j \in DOMAIN o.databases[i].tables} :
           i \in DOMAIN o.databases}

TableOf(o, id) ==
    LET i == CHOOSE i \in DOMAIN o.databases : o.databases[i].name = id[1]
        j == CHOOSE j \in DOMAIN o.databases[i].tables :
                o.databases[i].tables[j].name = id[2]
    IN o.databases[i].tables[j]

Source(rel) == <<rel.source_database, rel.source_table>>
Target(rel) == <<rel.target_database, rel.target_table>>

\* the table is the source or the target of a Relationship of o
Participates(o, id) ==
    \E i \in DOMAIN o.relationships :
        Source(o.relationships[i]) = id \/ Target(o.relationships[i]) = id

\* lo <= v <= hi, an absent bound not restricting
InRange(v, lo, hi) == (lo = Null \/ lo <= v) /\ (hi = Null \/ v <= hi)

\* a lineage layout of a selected table the ontology prop holds has finished
TraversalDone ==
    /\ pc = "done"
    /\ ~NoTableSelected(selectedNode)
    /\ HasTable(filteredOntology.databases, selectedNode.database, selectedNode.table)

Start == <<selectedNode.database, selectedNode.table>>

\* the (depth, table) pairs of a depth -> tables map
Reported(map) ==
    UNION {{<<d, <<map[d][k].db, map[d][k].table>>>> : k \in DOMAIN map[d]} :
           d \in DOMAIN map}

\* the tables one allowed hop away from a table of S
Neighbours(rels, dir, S) ==
    {Target(rels[i]) : i \in {i \in DOMAIN rels :
        dir \in {"downstream", "both"} /\ Source(rels[i]) \in S}}
    \cup
    {Source(rels[i]) : i \in {i \in DOMAIN rels :
        dir \in {"upstream", "both"} /\ Target(rels[i]) \in S}}

RECURSIVE WithinHops(_, _, _, _)
WithinHops(rels, dir, S, k) ==
    IF k = 0 THEN S
    ELSE WithinHops(rels, dir, S \cup Neighbours(rels, dir, S), k - 1)

\* the shortest hop distance from start to a table reachable from it
HopDistance(rels, dir, start, t) ==
    CHOOSE k \in 0..Len(rels) :
        /\ t \in WithinHops(rels, dir, {start}, k)
        /\ k = 0 \/ t \notin WithinHops(rels, dir, {start}, k - 1)

\* sequences of distinct tables
Paths ==
    {path \in SeqsUpTo(TableIdSet, Len(TableIds)) :
        \A i, j \in DOMAIN path : i # j => path[i] # path[j]}

\* rels is the simple chain path[1] -> path[2] -> ... and nothing else
IsChain(rels, path) ==
    /\ Len(path) = Len(rels) + 1
    /\ \A i \in 1..Len(rels) :
          \E j \in DOMAIN rels :
              Source(rels[j]) = path[i] /\ Target(rels[j]) = path[i + 1]

Item(id) == [db |-> id[1], table |-> id[2]]

MinOf(a, b) == IF a < b THEN a ELSE b

(***************************************************************************)
(* Properties.                                                             *)
(***************************************************************************)

\* C1: every Relationship of the filtered Ontology has its source table and
\* its target table among the Tables that survive filtering.
C1_RelationshipEndpointsSurvive ==
    ontology # NullOntology =>
        \A i \in DOMAIN filteredOntology.relationships :
            /\ Source(filteredOntology.relationships[i]) \in Tables(filteredOntology)
            /\ Target(filteredOntology.relationships[i]) \in Tables(filteredOntology)

\* C2: the start table never appears in the traversal result, at any depth,
\* in either partition.
C2_StartNeverReported ==
    TraversalDone =>
        \A d \in 1..depth :
            /\ <<d, Start>> \notin Reported(upstream)
            /\ <<d, Start>> \notin Reported(downstream)

\* C3: every table of the traversal result is reported at its shortest hop
\* distance from the start along the edges the direction allows, and so at
\* one depth only.
C3_ReportedAtShortestDistance ==
    TraversalDone =>
        \A r \in Reported(upstream) \cup Reported(downstream) :
            r[1] = HopDistance(filteredOntology.relationships, direction, Start, r[2])

\* C4: a traversal never nests calls deeper than maxDepth levels nor reports
\* a depth beyond maxDepth, and every traversal that starts finishes.
C4_TraversalTerminates ==
    /\ [](pc = "traverse" =>
            /\ Len(stack) <= depth
            /\ \A n \in DOMAIN stack :
                  /\ stack[n].currentDepth <= depth
                  /\ \A k \in DOMAIN stack[n].related :
                        stack[n].related[k].depth <= depth)
    /\ (pc = "traverse" ~> pc = "done")

\* a traversal over a graph with a self-referencing foreign key finished at
\* the largest depth
C4_Witness ==
    /\ TraversalDone
    /\ depth = 3
    /\ direction = "both"
    /\ \E i \in DOMAIN filteredOntology.relationships :
          /\ Source(filteredOntology.relationships[i]) = Start
          /\ Target(filteredOntology.relationships[i]) = Start
    /\ Len(related) >= 3

\* C5: on a simple chain T0 -> ... -> Tn, downstream from T0 reports exactly
\* Ti at depth i for 1 <= i <= min(maxDepth, n), and upstream from Tn reports
\* exactly T(n-i) at depth i; nothing is reported on the other side.
C5_ChainTraversal ==
    TraversalDone =>
        \A path \in Paths :
            IsChain(filteredOntology.relationships, path) =>
                LET n == Len(path) - 1
                    m == MinOf(depth, n)
                IN /\ (direction = "downstream" /\ Start = path[1]) =>
                          /\ downstream = [i \in 1..m |-> <<Item(path[i + 1])>>]
                          /\ DOMAIN upstream = {}
                   /\ (direction = "upstream" /\ Start = path[n + 1]) =>
                          /\ upstream = [i \in 1..m |-> <<Item(path[n + 1 - i])>>]
                          /\ DOMAIN downstream = {}

\* a downstream traversal from the head of a chain of three tables reported
\* two levels
C5_Witness ==
    /\ TraversalDone
    /\ direction = "downstream"
    /\ depth >= 2
    /\ \E path \in Paths :
          /\ Len(path) = 3
          /\ IsChain(filteredOntology.relationships, path)
          /\ Start = path[1]
    /\ DOMAIN downstream = {1, 2}

\* C6: hasRelationships = true keeps exactly the tables that are source or
\* target of a Relationship, false exactly those that are neither, unset
\* removes no table (among the tables the other predicates keep).
C6_HasRelationshipsIffParticipates ==
    ontology # NullOntology =>
        LET others == Tables(FilterOntology(ontology,
                          [filters EXCEPT !.hasRelationships = "null"]))
        IN Tables(filteredOntology) =
              {id \in others :
                  \/ filters.hasRelationships = "null"
                  \/ filters.hasRelationships = "true" /\ Participates(ontology, id)
                  \/ filters.hasRelationships = "false" /\ ~Participates(ontology, id)}

\* the selected table is not held by the ontology prop of the lineage view
StartMissing ==
    /\ pc = "done"
    /\ ~NoTableSelected(selectedNode)
    /\ ~HasTable(filteredOntology.databases, selectedNode.database, selectedNode.table)

C8_IsolatedStartEmptyResult ==
    (TraversalDone /\ ~Participates(filteredOntology, Start)) =>
        /\ related = <<>>
        /\ DOMAIN upstream = {}
        /\ DOMAIN downstream = {}
        /\ nodes = <<TableNode(Start[1], Start[2], TRUE)>>
        /\ edges = <<>>
        /\ error = "null"

\* an isolated start in an ontology that has relationships, at depth 3
C8_Witness ==
    /\ TraversalDone
    /\ ~Participates(filteredOntology, Start)
    /\ Len(filteredOntology.relationships) = MaxFKs
    /\ depth = 3

\* C9: the range predicates keep exactly the tables whose row count (null
\* counted as 0) and column count lie within the given bounds, both bounds
\* inclusive, an absent bound not restricting.
C9_RangesInclusive ==
    ontology # NullOntology =>
        LET others == Tables(FilterOntology(ontology,
                          [filters EXCEPT !.rowCountMin = Null, !.rowCountMax = Null,
                                          !.columnCountMin = Null,
                                          !.columnCountMax = Null]))
            rows(id) == IF TableOf(ontology, id).row_count = Null THEN 0
                        ELSE TableOf(ontology, id).row_count
            cols(id) == Len(TableOf(ontology, id).columns)
        IN Tables(filteredOntology) =
              {id \in others :
                  /\ InRange(rows(id), filters.rowCountMin, filters.rowCountMax)
                  /\ InRange(cols(id), filters.columnCountMin, filters.columnCountMax)}

\* rowCountMin = 1 keeps the table with one row and drops the table whose
\* row count is null
C9_Witness ==
    /\ ontology # NullOntology
    /\ filters.rowCountMin = 1
    /\ <<"DB1", "b">> \in Tables(filteredOntology)
    /\ <<"DB1", "a">> \notin Tables(filteredOntology)

\* C10: the databases of the filtered Ontology are those the table-level
\* predicates alone would leave, restricted to the names of a non-empty
\* databases set, each with the same tables.
C10_DatabaseSelection ==
    ontology # NullOntology =>
        LET others == FilterOntology(ontology, [filters EXCEPT !.databases = {}])
        IN filteredOntology.databases =
              SelectSeq(others.databases, LAMBDA db :
                  filters.databases = {} \/ db.name \in filters.databases)

\* a database selection together with a table-level predicate
C10_Witness ==
    /\ ontology # NullOntology
    /\ filters.databases = {"DB1"}
    /\ filters.tableTypes = {"VIEW"}
    /\ Len(filteredOntology.databases) = 1

\* the tables of an Ontology, as records
TableRecords(o) ==
    UNION {{o.databases[i].tables[j] : j \in DOMAIN o.databases[i].tables} :
              i \in DOMAIN o.databases}

\* C11 as stated: whatever tableTypes set the filter is given, every table
\* of the filtered Ontology has a kind that is a member of that set.
C11_KindInSet ==
    ontology # NullOntology =>
        \A table \in TableRecords(filteredOntology) :
            table.table_type \in filters.tableTypes

\* C11: for every non-empty tableTypes set every table of the filtered
\* Ontology has a kind that is a member of the set; the empty set restricts
\* nothing, it filters as the set of every kind of the Ontology does.
C11_KindInNonEmptySet ==
    ontology # NullOntology =>
        /\ filters.tableTypes # {} =>
              \A table \in TableRecords(filteredOntology) :
                  table.table_type \in filters.tableTypes
        /\ filters.tableTypes = {} =>
              filteredOntology =
                  FilterOntology(ontology,
                      [filters EXCEPT !.tableTypes =
                          {t.table_type : t \in TableRecords(ontology)}])

\* only views are asked for and the view of DB1 is what is left
C11_Witness ==
    /\ ontology # NullOntology
    /\ filters.tableTypes = {"VIEW"}
    /\ Tables(filteredOntology) = {<<"DB1", "b">>}

\* C12: no Database of a filtered Ontology has zero Tables, whatever the
\* predicates are.
C12_NoEmptyDatabase ==
    ontology # NullOntology =>
        \A i \in DOMAIN filteredOntology.databases :
            Len(filteredOntology.databases[i].tables) > 0

\* a table-level predicate removed every table of DB2, and DB2 with them,
\* while no database selection is active
C12_Witness ==
    /\ ontology # NullOntology
    /\ filters.databases = {}
    /\ filters.tableTypes = {"VIEW"}
    /\ \E i \in DOMAIN ontology.databases : ontology.databases[i].name = "DB2"
    /\ \A i \in DOMAIN filteredOntology.databases :
           filteredOntology.databases[i].name # "DB2"

\* list holds the elements of rels at the positions in idx, and no other,
\* in the order of rels
SelectedInOrder(list, rels, idx) ==
    /\ Len(list) = Cardinality(idx)
    /\ \A i \in idx : list[Cardinality({j \in idx : j <= i})] = rels[i]

\* C20: for a table the detail panel shows, the outgoing list is exactly
\* the Relationships whose source is the table and the incoming list exactly
\* those whose target is the table, each in the order of the Relationship
\* sequence; a self-referencing Relationship is in both lists.
C20_OutgoingIncoming ==
    TableDetailsRendered(filteredOntology, selectedNode) =>
        LET rels == filteredOntology.relationships
            out == outgoingRelationships(filteredOntology, selectedNode)
            inc == incomingRelationships(filteredOntology, selectedNode)
        IN /\ SelectedInOrder(out, rels,
                  {i \in DOMAIN rels : Source(rels[i]) = Start})
           /\ SelectedInOrder(inc, rels,
                  {i \in DOMAIN rels : Target(rels[i]) = Start})
           /\ \A i \in DOMAIN rels :
                  Source(rels[i]) = Start /\ Target(rels[i]) = Start
                  => /\ \E k \in DOMAIN out : out[k] = rels[i]
                     /\ \E k \in DOMAIN inc : inc[k] = rels[i]

\* the selected table references itself and is referenced by another
\* table: the self-reference is in both lists, the other only in one
C20_Witness ==
    /\ TableDetailsRendered(filteredOntology, selectedNode)
    /\ Len(filteredOntology.relationships) = 2
    /\ Len(outgoingRelationships(filteredOntology, selectedNode)) = 1
    /\ Len(incomingRelationships(filteredOntology, selectedNode)) = 2
    /\ LET out == outgoingRelationships(filteredOntology, selectedNode)
       IN Source(out[1]) = Target(out[1])

\* build returned an Ontology, not a failure
IsOntology(v) == "databases" \in DOMAIN v

Failed(v, name) == "error" \in DOMAIN v /\ v.error = name

InputNames == {rawMetadata[i].name : i \in DOMAIN rawMetadata}

\* the foreign keys the input declares, each with the table that owns it
DeclaredForeignKeys ==
    UNION {UNION {{[database |-> rawMetadata[i].name,
                    table |-> rawMetadata[i].tables[j].name,
                    fk |-> rawMetadata[i].tables[j].foreign_keys[k]] :
                      k \in DOMAIN rawMetadata[i].tables[j].foreign_keys} :
                  j \in DOMAIN rawMetadata[i].tables} :
           i \in DOMAIN rawMetadata}

\* the input holds the column the foreign key references
ReferenceExists(d) ==
    \E i \in DOMAIN rawMetadata : \E j \in DOMAIN rawMetadata[i].tables :
        /\ rawMetadata[i].name = d.fk.referenced_table_schema
        /\ rawMetadata[i].tables[j].name = d.fk.referenced_table_name
        /\ d.fk.referenced_column_name \in
              {rawMetadata[i].tables[j].columns[k] :
                  k \in DOMAIN rawMetadata[i].tables[j].columns}

\* the positions of the Relationships emitted for a declared foreign key
EmittedFor(d) ==
    {r \in DOMAIN built.relationships :
        LET rel == built.relationships[r]
        IN /\ Source(rel) = <<d.database, d.table>>
           /\ rel.constraint_name = d.fk.constraint_name
           /\ Target(rel) = <<d.fk.referenced_table_schema,
                              d.fk.referenced_table_name>>
           /\ rel.target_column = d.fk.referenced_column_name}

\* C16: in every Ontology build produces, the source table and the target
\* table of every Relationship are tables of the Ontology's databases.
C16_NoDanglingEdges ==
    IsOntology(built) =>
        \A r \in DOMAIN built.relationships :
            /\ Source(built.relationships[r]) \in Tables(built)
            /\ Target(built.relationships[r]) \in Tables(built)

\* one foreign key resolved and one referencing a table that DB2 does not
\* have was left out
C16_Witness ==
    /\ IsOntology(built)
    /\ Len(built.relationships) = 1
    /\ \E d \in DeclaredForeignKeys :
          <<d.fk.referenced_table_schema, d.fk.referenced_table_name>>
              = <<"DB2", "b">>
    /\ "DB2" \in InputNames

\* C17: a foreign key whose referenced database is not among the databases
\* given to build yields no Relationship and no failure, and the foreign
\* keys whose reference exists are resolved all the same.
C17_UnknownDatabaseSkipped ==
    /\ built # NullOntology
    /\ Cardinality(InputNames) = Len(rawMetadata)
    /\ \E d \in DeclaredForeignKeys : d.fk.referenced_table_schema \notin InputNames
    => /\ IsOntology(built)
       /\ \A d \in DeclaredForeignKeys :
             /\ d.fk.referenced_table_schema \notin InputNames
                => ~\E r \in DOMAIN built.relationships :
                       /\ Source(built.relationships[r]) = <<d.database, d.table>>
                       /\ built.relationships[r].constraint_name
                              = d.fk.constraint_name
             /\ ReferenceExists(d) => EmittedFor(d) # {}

\* a reference into EXT beside a reference that resolves
C17_Witness ==
    /\ IsOntology(built)
    /\ Len(built.relationships) = 1
    /\ "EXT" \notin InputNames
    /\ \E d \in DeclaredForeignKeys : d.fk.referenced_table_schema = "EXT"

\* C18: build fails with DuplicateDatabaseError and returns no Ontology
\* when two records of its input carry the same database name, and returns
\* an Ontology when the names are distinct.
C18_DuplicateDatabaseError ==
    built # NullOntology =>
        IF Cardinality(InputNames) < Len(rawMetadata)
        THEN Failed(built, "DuplicateDatabaseError") /\ ~IsOntology(built)
        ELSE IsOntology(built)

\* the first and the third record carry the same name
C18_Witness ==
    /\ Failed(built, "DuplicateDatabaseError")
    /\ Len(rawMetadata) = 3
    /\ rawMetadata[1].name = rawMetadata[3].name
    /\ rawMetadata[1].name # rawMetadata[2].name

\* C19: for every foreign key whose referenced database, table and column
\* are in the input build emits exactly one Relationship, the same
\* Relationships whatever the order of the databases, and no two
\* Relationships of one constraint.
C19_OneRelationshipPerForeignKey ==
    IsOntology(built) =>
        /\ \A d \in DeclaredForeignKeys :
              ReferenceExists(d) => Cardinality(EmittedFor(d)) = 1
        /\ LET other == build(ReverseSeq(rawMetadata))
           IN /\ IsOntology(other)
              /\ {other.relationships[r] : r \in DOMAIN other.relationships}
                   = {built.relationships[r] : r \in DOMAIN built.relationships}
        /\ \A r1, r2 \in DOMAIN built.relationships :
              r1 < r2 =>
                  \/ Source(built.relationships[r1]) # Source(built.relationships[r2])
                  \/ built.relationships[r1].constraint_name
                         # built.relationships[r2].constraint_name

\* DB1 is listed before DB2, a table of DB1 references a table of DB2 and
\* the catalog delivered the row of that constraint twice
C19_Witness ==
    /\ IsOntology(built)
    /\ Len(rawMetadata) = 2
    /\ rawMetadata[1].name = "DB1"
    /\ rawMetadata[2].name = "DB2"
    /\ Len(rawMetadata[1].tables[1].foreign_keys) = 2
    /\ rawMetadata[1].tables[1].foreign_keys[1]
           = rawMetadata[1].tables[1].foreign_keys[2]
    /\ rawMetadata[1].tables[1].foreign_keys[1].referenced_table_schema = "DB2"
    /\ Len(built.relationships) = 1

\* the table nodes the graph shows
ShownTableNodes == SelectSeq(graphNodes, LAMBDA node : node.type = "table")

NamesOf(items) == [i \in DOMAIN items |-> items[i].name]

LabelsOf(nodeList) == [i \in DOMAIN nodeList |-> nodeList[i].label]

\* C14 as stated: for a non-empty query the tables the search returns, in
\* the schema explorer and in the graph, are exactly the tables whose own
\* name contains the query as a case-insensitive substring.
C14_TablesMatchByOwnName ==
    MainViewRendered /\ ~crashed /\ debouncedSearchQuery # "" =>
        /\ \A d \in DOMAIN filteredOntology.databases :
              LET db == filteredOntology.databases[d]
              IN filterTables(db, debouncedSearchQuery) =
                    SelectSeq(db.tables, LAMBDA table :
                        NameIncludes(table.name, debouncedSearchQuery))
        /\ viewMode = "graph" =>
              \A n \in DOMAIN ShownTableNodes :
                  NameIncludes(ShownTableNodes[n].label, debouncedSearchQuery)

\* C15: with the empty query the schema explorer lists every database and
\* every table of the Ontology it is given, unchanged and in the original
\* order, and the graph shows the layout unfiltered: a node for every
\* database and for every table of an expanded database, in that order.
C15_EmptyQueryReturnsAll ==
    MainViewRendered /\ debouncedSearchQuery = "" =>
        /\ filterDatabases(filteredOntology.databases, debouncedSearchQuery)
               = filteredOntology.databases
        /\ \A d \in DOMAIN filteredOntology.databases :
              filterTables(filteredOntology.databases[d], debouncedSearchQuery)
                  = filteredOntology.databases[d].tables
        /\ viewMode = "graph" =>
              /\ ~crashed
              /\ LabelsOf(SelectSeq(graphNodes, LAMBDA node : node.type = "database"))
                     = NamesOf(filteredOntology.databases)
              /\ \A d \in DOMAIN filteredOntology.databases :
                    LET db == filteredOntology.databases[d]
                    IN IsExpanded(db, expandedDatabases, showAllNodes) =>
                          LabelsOf(SelectSeq(ShownTableNodes, LAMBDA node :
                                       node.database = db.name))
                              = NamesOf(db.tables)
              /\ Len(graphEdges) >= Len(ShownTableNodes)

\* the query was cleared again after a search, DB1 is expanded: the two
\* databases and the two tables of DB1 are shown
C15_Witness ==
    /\ MainViewRendered
    /\ searchQuery = ""
    /\ debouncedSearchQuery = ""
    /\ expandedDatabases = {"DB1"}
    /\ ~showAllNodes
    /\ Len(graphNodes) = 4
    /\ Len(filterTables(filteredOntology.databases[1], debouncedSearchQuery)) = 2

\* C13: no read operation (filter, traversal, search, relationship lookup,
\* list sorting, change of view) changes the loaded Ontology: once loaded,
\* its databases, their tables and its relationships stay what they were.
C13_ReadsLeaveOntologyUnchanged ==
    [][ontology # NullOntology /\ ontology' = ontology]_vars

\* a filter, a search, a selection and a descending sort have been applied
C13_Witness ==
    /\ ontology # NullOntology
    /\ filters.tableTypes = {"BASE TABLE"}
    /\ debouncedSearchQuery = "db"
    /\ selectedNode # NoSelection
    /\ viewMode = "list"
    /\ sortField = "rows"
    /\ sortDirection = "desc"
    /\ Len(tableRows) = 2
    /\ Len(ontology.relationships) = 1

\* the tables a depth -> tables map holds at depth d, one entry per item
AtDepth(map, d) == IF d \in DOMAIN map THEN map[d] ELSE <<>>

\* C21: within a depth level of the traversal result a table appears at
\* most once by qualified name: once at most in each partition, and, for
\* direction both, not in the upstream and in the downstream partition of
\* the same depth.
C21_OncePerDepthLevel ==
    TraversalDone =>
        \A d \in 1..depth :
            LET level == AtDepth(upstream, d) \o AtDepth(downstream, d)
            IN \A i, j \in DOMAIN level :
                  i # j => Key(level[i].db, level[i].table)
                               # Key(level[j].db, level[j].table)

\* the tables k >= 1 allowed hops away from start
ReachedIn(rels, dir, start, k) ==
    Neighbours(rels, dir, WithinHops(rels, dir, {start}, k - 1))

\* C22: with direction downstream every reported table is reached from the
\* start over source-to-target edges only and the upstream partition is
\* empty; with direction upstream every reported table is reached over
\* target-to-source steps only and the downstream partition is empty.
C22_DirectionRespected ==
    TraversalDone =>
        LET rels == filteredOntology.relationships
        IN /\ direction = "downstream" =>
                 /\ DOMAIN upstream = {}
                 /\ \A r \in Reported(downstream) :
                       r[2] \in ReachedIn(rels, "downstream", Start, r[1])
           /\ direction = "upstream" =>
                 /\ DOMAIN downstream = {}
                 /\ \A r \in Reported(upstream) :
                       r[2] \in ReachedIn(rels, "upstream", Start, r[1])

\* a downstream traversal of two levels from a table that is also the
\* target of a relationship, and an upstream one from a table that is also
\* a source: a one-directional traversal left the other side out
C22_Witness ==
    /\ TraversalDone
    /\ \E i, j \in DOMAIN filteredOntology.relationships :
          /\ Source(filteredOntology.relationships[i]) = Start
          /\ Target(filteredOntology.relationships[j]) = Start
          /\ Target(filteredOntology.relationships[i]) # Start
          /\ Source(filteredOntology.relationships[j]) # Start
    /\ \/ direction = "downstream" /\ DOMAIN downstream # {}
       \/ direction = "upstream" /\ DOMAIN upstream # {}

\* C23: every reported depth lies in 1..maxDepth; a table is reported at
\* depth d only if the start (d = 1) or a table reported at depth d - 1 has
\* an allowed edge to it; no table farther than maxDepth hops from the start
\* is reported.
C23_DepthsBoundedAndChained ==
    TraversalDone =>
        LET rels == filteredOntology.relationships
            reported == Reported(upstream) \cup Reported(downstream)
            level(d) == IF d = 0 THEN {Start}
                        ELSE {r[2] : r \in {q \in reported : q[1] = d}}
        IN \A r \in reported :
              /\ r[1] \in 1..depth
              /\ r[2] \in Neighbours(rels, direction, level(r[1] - 1))
              /\ r[2] \in WithinHops(rels, direction, {Start}, depth)

\* a table two hops from the start and no neighbour of it was reported at
\* depth 2, and with one more hop allowed nothing was reported at depth 3
C23_Witness ==
    /\ TraversalDone
    /\ depth = 3
    /\ \E r \in Reported(upstream) \cup Reported(downstream) :
          /\ r[1] = 2
          /\ r[2] # Start
          /\ r[2] \notin Neighbours(filteredOntology.relationships, direction, {Start})
    /\ 3 \notin DOMAIN upstream \cup DOMAIN downstream

\* C24: filtering the filtered Ontology again with the same filters gives
\* the filtered Ontology: the same databases, tables and relationships.
C24_FilterIdempotent ==
    ontology # NullOntology =>
        FilterOntology(filteredOntology, filters) = filteredOntology

\* hasRelationships = true together with a database selection dropped the
\* database of a referencing table and kept the table it references
C24_Witness ==
    /\ ontology # NullOntology
    /\ filters.hasRelationships = "true"
    /\ filters.databases # {}
    /\ \E i \in DOMAIN filteredOntology.relationships :
          /\ Target(filteredOntology.relationships[i]) \in Tables(filteredOntology)
          /\ Source(filteredOntology.relationships[i]) \notin Tables(filteredOntology)

\* the databases of an Ontology that have a table
NonEmptyDatabases(o) == SelectSeq(o.databases, LAMBDA db : Len(db.tables) > 0)

\* C25 (as claimed): with the cleared filter state the filtered Ontology
\* has exactly the databases and tables of the loaded Ontology, the badge
\* is hidden and the database count is the full count.
C25_ClearedFilterIsIdentity ==
    (MainViewRendered /\ filters = ClearedFilters) =>
        /\ filteredOntology.databases = ontology.databases
        /\ ~FilterBadgeShown
        /\ databaseCount = Len(ontology.databases)

\* C25 (amended): with the cleared filter state the filtered Ontology has
\* exactly the tables of the loaded Ontology and its databases except those
\* without a table; the badge is hidden and the database count is the count
\* of the databases that have a table.
C25_ClearedFilterKeepsEveryTable ==
    (MainViewRendered /\ filters = ClearedFilters) =>
        /\ filteredOntology.databases = NonEmptyDatabases(ontology)
        /\ Tables(filteredOntology) = Tables(ontology)
        /\ filteredOntology.relationships = ontology.relationships
        /\ ~FilterBadgeShown
        /\ databaseCount = Len(NonEmptyDatabases(ontology))

\* a loaded Ontology with a database that has no table, shown with the
\* cleared filter state
C25_Witness ==
    /\ MainViewRendered
    /\ filters = ClearedFilters
    /\ \E i \in DOMAIN ontology.databases : Len(ontology.databases[i].tables) = 0
    /\ databaseCount = 2
    /\ TableCount(filteredOntology) = 3

\* C26: in the graph view every edge handed to the graph, containment edge
\* or relationship edge, has its source and its target among the displayed
\* nodes.
C26_EdgesJoinDisplayedNodes ==
    viewMode = "graph" =>
        \A e \in DOMAIN graphEdges :
            /\ \E n \in DOMAIN graphNodes : graphNodes[n].id = graphEdges[e].source
            /\ \E n \in DOMAIN graphNodes : graphNodes[n].id = graphEdges[e].target

\* a table is focused whose relationship leads into a collapsed database:
\* the containment edges of the expanded database are shown, the
\* relationship edge is not, and a search query is active
C26_Witness ==
    /\ viewMode = "graph"
    /\ ~crashed
    /\ debouncedSearchQuery = "db"
    /\ focusedTable # "null"
    /\ ~showAllNodes
    /\ \E i \in DOMAIN filteredOntology.relationships :
          LET rel == filteredOntology.relationships[i]
          IN /\ FocusKey(rel.source_database, rel.source_table) = focusedTable
             /\ rel.target_database \notin expandedDatabases
    /\ Len(graphEdges) > 0

\* C27: in the graph view the search filter never raises an error, whatever
\* the Ontology, the expansion state and the non-empty query: a node that
\* matches neither by label nor by database name is removed.
C27_SearchFilterNeverThrows ==
    (viewMode = "graph" /\ debouncedSearchQuery # "") => ~crashed

\* C28: the node ids of a finished lineage layout are unique: the selected
\* start table is one node, the centre, and no other table is emitted as
\* more than one node.
C28_LineageNodeIdsUnique ==
    TraversalDone =>
        /\ \A i, j \in DOMAIN nodes : i # j => nodes[i].id # nodes[j].id
        /\ Cardinality({i \in DOMAIN nodes :
                           nodes[i].id = NodeId(Start[1], Start[2])}) = 1

\* C29: a load attempt starts with loading = true and error = null; when
\* the fetch settles loading becomes false with exactly one outcome, either
\* the fetched ontology with error still null, or an error with the
\* ontology unchanged; a main view is rendered only while loading = false,
\* error = null and the ontology is not null.
C29_LoadOutcomes ==
    /\ [](loading => error = "null")
    /\ []((graphNodes # <<>> \/ tableRows # <<>>) => MainViewRendered)
    /\ [][/\ (~loading /\ loading') => (error' = "null" /\ ontology' = ontology)
          /\ (loading /\ ~loading') =>
                \/ /\ error' = "null"
                   /\ ontology' \in Ontologies(MaxFetchedFKs, FKTargets)
                \/ /\ error' # "null"
                   /\ ontology' = ontology]_vars

\* a load settled by a non-OK response: the error screen, no main view
C29_Witness ==
    /\ ~loading
    /\ error = "API Error: Not Found"
    /\ ontology = NullOntology
    /\ graphNodes = <<>>

\* the other direction
Flipped(dir) == IF dir = "asc" THEN "desc" ELSE "asc"

\* C30: the sort state of a list view starts at (name, asc); a click on a
\* sortable header changes the sort state, and while the list view stays
\* mounted a step that changes it either keeps the field and flips the
\* direction (the active header) or makes another field active with
\* direction asc.  The direction is one of asc and desc, so two clicks on
\* the active header restore the state, and desc is entered only by a step
\* that keeps the field.
C30_SortStateMachine ==
    /\ [](/\ sortField \in SortFields
          /\ sortDirection \in {"asc", "desc"}
          /\ viewMode # "list" => (sortField = "name" /\ sortDirection = "asc"))
    /\ [][clickSortHeader =>
             <<sortField, sortDirection>>' # <<sortField, sortDirection>>]_vars
    /\ [][(viewMode = "list" /\ viewMode' = "list"
            /\ <<sortField, sortDirection>>' # <<sortField, sortDirection>>) =>
             \/ /\ sortField' = sortField
                /\ sortDirection' = Flipped(sortDirection)
                /\ Flipped(sortDirection') = sortDirection
             \/ /\ sortField' # sortField
                /\ sortDirection' = "asc"]_vars

\* the rows header was clicked twice: rows is active, direction desc
C30_Witness ==
    /\ viewMode = "list"
    /\ sortField = "rows"
    /\ sortDirection = "desc"
    /\ Len(tableRows) = 3

====
